---- MODULE Spec2Model ----
(***************************************************************************)
(* Model of diarization.py: the function diarize_audio and the             *)
(* command-line entry point (the __main__ block).                          *)
(*                                                                         *)
(* The pyannote pipeline, torch, the file system and the process           *)
(* environment are the surroundings of the script: every call into them    *)
(* is recorded (calls, authToken, pipelineDevice, instantiated,            *)
(* invokedPath) and every answer they can give is a nondeterministic       *)
(* choice.  Exceptions raised by the library are instances of Exception.   *)
(*                                                                         *)
(* Times are counted in ticks of 1/8 second, which binary floating point   *)
(* represents exactly, so round(x, 2) is modelled exactly, ties included;  *)
(* rounded times are counted in hundredths of a second.  Thresholds are    *)
(* counted in hundredths too (0.75 is 75).                                 *)
(***************************************************************************)
EXTENDS Integers, Sequences, FiniteSets

\* ---------------------------------------------------------------- bounds
MaxTracks == 2
MaxTick == 1

\* ------------------------------------------------------------ input sets
None == "<None>"
NoInt == [some |-> FALSE, val |-> 0]
SomeInt(n) == [some |-> TRUE, val |-> n]
NoExc == [type |-> "<none>", msg |-> <<>>]

ProgName == "diarization.py"
Paths == {"a.wav"}
\* the strings given as the optional num_speakers argument
NumArgs == {"0", "2", "-1", " 3", "x", "2x", ""}
Tokens == {None, "", "hf_tok"}
ArgTokens == {None, "", "hf_arg"}
Speakers == {"SPEAKER_00", "SPEAKER_01"}
ImportNumSpeakers == {NoInt, SomeInt(0), SomeInt(2)}

Argvs ==
    {<<ProgName>>}
      \cup {<<ProgName, p>> : p \in Paths}
      \cup {<<ProgName, p, s>> : p \in Paths, s \in NumArgs}
      \cup {<<ProgName, p, "2", "extra">> : p \in Paths}

\* the characters of each argument string
Chars(s) ==
    CASE s = "0" -> <<"0">>
      [] s = "2" -> <<"2">>
      [] s = "-1" -> <<"-", "1">>
      [] s = " 3" -> <<" ", "3">>
      [] s = "x" -> <<"x">>
      [] s = "2x" -> <<"2", "x">>
      [] s = "" -> <<>>

Ticks == 0..MaxTick
Tracks == {[start |-> a, end |-> b, speaker |-> s] :
              a \in Ticks, b \in Ticks, s \in Speakers}
SeqsUpTo(S, n) == UNION {[1..k -> S] : k \in 0..n}
\* what pipeline(audio_path) can return: a sequence of (turn, speaker) tracks
Diarizations == {d \in SeqsUpTo(Tracks, MaxTracks) :
                    \A k \in 1..Len(d) : d[k].start <= d[k].end}

\* exceptions the library can raise
LoadErrors == {[type |-> "OSError", msg |-> <<"401 Unauthorized">>]}
DeviceErrors == {[type |-> "RuntimeError", msg |-> <<"CUDA out of memory">>]}
InstantiateErrors == {[type |-> "ValueError", msg |-> <<"bad hyper-parameter">>]}
InvokeErrors == {[type |-> "RuntimeError", msg |-> <<"could not decode audio">>]}

\* ------------------------------------------------------------ pure parts

\* variant: `hf_token is None` in place of `not hf_token`
Falsy_IsNone(tok) == tok = None

\* Python truthiness of an optional string: `not hf_token`
Falsy(tok) == tok \in {None, ""}

IsDigit(c) == c \in {"0", "1", "2", "3", "4", "5", "6", "7", "8", "9"}

DigitVal(c) ==
    CASE c = "0" -> 0 [] c = "1" -> 1 [] c = "2" -> 2 [] c = "3" -> 3
      [] c = "4" -> 4 [] c = "5" -> 5 [] c = "6" -> 6 [] c = "7" -> 7
      [] c = "8" -> 8 [] c = "9" -> 9

RECURSIVE Strip(_)
Strip(cs) ==
    IF cs # <<>> /\ Head(cs) = " " THEN Strip(Tail(cs))
    ELSE IF cs # <<>> /\ cs[Len(cs)] = " " THEN Strip(SubSeq(cs, 1, Len(cs) - 1))
    ELSE cs

RECURSIVE DigitsVal(_)
DigitsVal(cs) ==
    IF cs = <<>> THEN 0
    ELSE 10 * DigitsVal(SubSeq(cs, 1, Len(cs) - 1)) + DigitVal(cs[Len(cs)])

\* int(s): surrounding blanks, an optional sign, then at least one digit;
\* anything else raises ValueError (NoInt)
ParseInt(s) ==
    LET cs == Strip(Chars(s))
        signed == cs # <<>> /\ Head(cs) \in {"-", "+"}
        ds == IF signed THEN Tail(cs) ELSE cs
    IN  IF ds = <<>> \/ \E k \in 1..Len(ds) : ~IsDigit(ds[k]) THEN NoInt
        ELSE IF signed /\ Head(cs) = "-" THEN SomeInt(0 - DigitsVal(ds))
        ELSE SomeInt(DigitsVal(ds))

\* num_speakers as the entry point computes it from sys.argv
HasNumArg(av) == Len(av) > 2

\* variant: the availability of CUDA is ignored
DeviceFor_AlwaysCpu(avail) == "cpu"

\* "cuda" if torch.cuda.is_available() else "cpu"
DeviceFor(avail) == IF avail THEN "cuda" ELSE "cpu"

\* variant: `if num_speakers:` in place of `if num_speakers is not None:`
ClusteringParams_Truthy(n) ==
    IF n.some /\ n.val # 0
    THEN {<<"min_cluster_size", 15>>, <<"threshold", 75>>, <<"num_clusters", n.val>>}
    ELSE {<<"min_cluster_size", 25>>, <<"threshold", 85>>}

\* the dict handed to pipeline.instantiate, as the set of its (key, value)
\* pairs under "clustering"
ClusteringParams(n) ==
    IF n.some
    THEN {<<"min_cluster_size", 15>>, <<"threshold", 75>>, <<"num_clusters", n.val>>}
    ELSE {<<"min_cluster_size", 25>>, <<"threshold", 85>>}

\* round(t, 2) of a time of t ticks (t/8 s), in hundredths, ties to even
Round2(t) ==
    LET n == 100 * t
        q == n \div 8
        r == n % 8
    IN  IF 2 * r < 8 THEN q
        ELSE IF 2 * r > 8 THEN q + 1
        ELSE IF q % 2 = 0 THEN q ELSE q + 1

\* variant: "end" computed from turn.start
SegmentOf_EndFromStart(track) ==
    [start |-> Round2(track.start), end |-> Round2(track.start),
     speaker |-> track.speaker]

\* the dict appended for one track
SegmentOf(track) ==
    [start |-> Round2(track.start), end |-> Round2(track.end),
     speaker |-> track.speaker]

\* json.dumps({key: value}) as the document it denotes
JsonDumps(key, value) == [key |-> key, value |-> value]

\* ----------------------------------------------------------------- state
VARIABLES
    mode,            \* "cli": run as a script; "import": diarize_audio called directly
    argv,            \* sys.argv
    envToken,        \* os.environ.get("HUGGINGFACE_TOKEN")
    fs,              \* the paths that exist
    cudaAvailable,   \* torch.cuda.is_available()
    pc,              \* position in the script
    audio_path, num_speakers, hf_token,   \* diarize_audio's parameters
    tokenArg,        \* the hf_token argument as the caller passed it
    envRead,         \* the environment variable has been read
    device,          \* the local device
    calls,           \* the pipeline operations performed, in order
    authToken,       \* use_auth_token given to from_pretrained
    pipelineDevice,  \* the device the pipeline was moved to
    clustering_params,
    instantiated,    \* the parameters given to pipeline.instantiate
    invokedPath,     \* the path the pipeline was invoked on
    diarization,     \* the tracks of the pipeline's result
    idx,             \* the track the for loop is at
    segments, speakers,
    result,          \* diarize_audio's return value
    exc,             \* the exception propagating out of diarize_audio or main
    stdout, stderr,  \* what has been written to each stream
    exitStatus       \* the process exit status, -1 while running

envVars == <<mode, argv, envToken, fs, cudaAvailable>>
argVars == <<audio_path, num_speakers, hf_token, tokenArg>>
pipeVars == <<calls, authToken, pipelineDevice, instantiated, invokedPath, diarization>>
loopVars == <<idx, segments, speakers>>
outVars == <<stdout, stderr, exitStatus>>
vars == <<envVars, argVars, pipeVars, loopVars, outVars,
          pc, envRead, device, clustering_params, result, exc>>

Init ==
    /\ mode \in {"cli", "import"}
    /\ argv \in IF mode = "cli" THEN Argvs ELSE {<<"caller.py">>}
    /\ envToken \in Tokens
    /\ fs \in SUBSET Paths
    /\ cudaAvailable \in BOOLEAN
    /\ pc = "start"
    /\ audio_path = None /\ num_speakers = NoInt /\ hf_token = None
    /\ tokenArg = None
    /\ envRead = FALSE
    /\ device = None
    /\ calls = <<>> /\ authToken = None /\ pipelineDevice = None
    /\ clustering_params = {} /\ instantiated = {}
    /\ invokedPath = None /\ diarization = <<>>
    /\ idx = 0 /\ segments = <<>> /\ speakers = {}
    /\ result = <<>> /\ exc = NoExc
    /\ stdout = <<>> /\ stderr = <<>> /\ exitStatus = -1

\* raise e out of diarize_audio
Raise(e) == pc' = "raised" /\ exc' = e

\* ------------------------------------------------------ the entry point

\* variant: the usage line is printed without file=sys.stderr
MainCheckArgs_UsageToStdout ==
    /\ mode = "cli" /\ pc = "start"
    /\ IF Len(argv) < 2
       THEN /\ stdout' = Append(stdout, <<"Usage: python diarization.py <audio_file> [num_speakers]">>)
            /\ exitStatus' = 1
            /\ pc' = "exited"
       ELSE /\ pc' = "parse"
            /\ UNCHANGED <<stdout, exitStatus>>
    /\ UNCHANGED <<envVars, argVars, pipeVars, loopVars, stderr,
                   envRead, device, clustering_params, result, exc>>

\* if len(sys.argv) < 2: usage to stderr, sys.exit(1)
MainCheckArgs ==
    /\ mode = "cli" /\ pc = "start"
    /\ IF Len(argv) < 2
       THEN /\ stderr' = Append(stderr, <<"Usage: python diarization.py <audio_file> [num_speakers]">>)
            /\ exitStatus' = 1
            /\ pc' = "exited"
       ELSE /\ pc' = "parse"
            /\ UNCHANGED <<stderr, exitStatus>>
    /\ UNCHANGED <<envVars, argVars, pipeVars, loopVars, stdout,
                   envRead, device, clustering_params, result, exc>>

\* audio_file = sys.argv[1]; num_speakers = int(sys.argv[2]) if given.
\* int() is outside the try block: its ValueError is uncaught, the
\* interpreter prints a traceback to stderr and exits with status 1.
MainParseArgs ==
    /\ mode = "cli" /\ pc = "parse"
    /\ IF HasNumArg(argv) /\ ~ParseInt(argv[3]).some
       THEN /\ exc' = [type |-> "ValueError", msg |-> <<"invalid literal for int() with base 10: ", argv[3]>>]
            /\ stderr' = Append(stderr, <<"Traceback (most recent call last):", "ValueError">>)
            /\ exitStatus' = 1
            /\ pc' = "exited"
            /\ UNCHANGED argVars
       ELSE /\ audio_path' = argv[2]
            /\ num_speakers' = IF HasNumArg(argv) THEN ParseInt(argv[3]) ELSE NoInt
            /\ hf_token' = None /\ tokenArg' = None
            /\ pc' = "token"
            /\ UNCHANGED <<exc, stderr, exitStatus>>
    /\ UNCHANGED <<envVars, pipeVars, loopVars, stdout,
                   envRead, device, clustering_params, result>>

\* a caller that imported the module calls diarize_audio(path, n, token)
ImportCall ==
    /\ mode = "import" /\ pc = "start"
    /\ audio_path' \in Paths
    /\ num_speakers' \in ImportNumSpeakers
    /\ hf_token' \in ArgTokens /\ tokenArg' = hf_token'
    /\ pc' = "token"
    /\ UNCHANGED <<envVars, pipeVars, loopVars, outVars,
                   envRead, device, clustering_params, result, exc>>

\* ------------------------------------------------------- diarize_audio

\* if not hf_token: read the environment; if still none: ValueError
ResolveToken ==
    /\ pc = "token"
    /\ IF Falsy(hf_token)
       THEN /\ envRead' = TRUE
            /\ hf_token' = envToken
            /\ IF Falsy(envToken)
               THEN Raise([type |-> "ValueError",
                           msg |-> <<"HuggingFace token required for pyannote.audio">>])
               ELSE pc' = "exists" /\ UNCHANGED exc
       ELSE /\ pc' = "exists"
            /\ UNCHANGED <<envRead, hf_token, exc>>
    /\ UNCHANGED <<envVars, audio_path, num_speakers, tokenArg, pipeVars, loopVars, outVars,
                   device, clustering_params, result>>

\* variant: the existence of the audio file is not checked
CheckFile_NoCheck ==
    /\ pc = "exists"
    /\ pc' = "device"
    /\ UNCHANGED <<envVars, argVars, pipeVars, loopVars, outVars,
                   envRead, device, clustering_params, result, exc>>

\* if not os.path.exists(audio_path): FileNotFoundError
CheckFile ==
    /\ pc = "exists"
    /\ IF audio_path \notin fs
       THEN Raise([type |-> "FileNotFoundError",
                   msg |-> <<"Audio file not found: ", audio_path>>])
       ELSE pc' = "device" /\ UNCHANGED exc
    /\ UNCHANGED <<envVars, argVars, pipeVars, loopVars, outVars,
                   envRead, device, clustering_params, result>>

\* variant: the device message is printed without file=sys.stderr
SelectDevice_ToStdout ==
    /\ pc = "device"
    /\ device' = DeviceFor(cudaAvailable)
    /\ stdout' = Append(stdout, <<"Using device: ", DeviceFor(cudaAvailable)>>)
    /\ pc' = "load"
    /\ UNCHANGED <<envVars, argVars, pipeVars, loopVars, stderr, exitStatus,
                   envRead, clustering_params, result, exc>>

\* device = torch.device(...); print("Using device") to stderr
SelectDevice ==
    /\ pc = "device"
    /\ device' = DeviceFor(cudaAvailable)
    /\ stderr' = Append(stderr, <<"Using device: ", DeviceFor(cudaAvailable)>>)
    /\ pc' = "load"
    /\ UNCHANGED <<envVars, argVars, pipeVars, loopVars, stdout, exitStatus,
                   envRead, clustering_params, result, exc>>

\* variant: the handler prints the message and does not re-raise
LoadFailed_Swallowed(e) ==
    /\ stderr' = Append(stderr, <<"Error loading pipeline: ", e.msg>>)
    /\ pc' = "config"
    /\ UNCHANGED exc

\* on any failure while loading: message to stderr, re-raise
LoadFailed(e) ==
    /\ stderr' = Append(stderr, <<"Error loading pipeline: ", e.msg>>)
    /\ Raise(e)

\* pipeline = Pipeline.from_pretrained(..., use_auth_token=hf_token).to(device)
LoadPipeline ==
    /\ pc = "load"
    /\ authToken' = hf_token
    /\ \/ \E e \in LoadErrors :
            /\ calls' = Append(calls, "from_pretrained")
            /\ LoadFailed(e)
            /\ UNCHANGED pipelineDevice
       \/ \E e \in DeviceErrors :
            /\ calls' = calls \o <<"from_pretrained", "to">>
            /\ pipelineDevice' = device
            /\ LoadFailed(e)
       \/ /\ calls' = calls \o <<"from_pretrained", "to">>
          /\ pipelineDevice' = device
          /\ pc' = "config"
          /\ UNCHANGED <<stderr, exc>>
    /\ UNCHANGED <<envVars, argVars, instantiated, invokedPath, diarization,
                   loopVars, stdout, exitStatus,
                   envRead, device, clustering_params, result>>

\* build clustering_params and report the speaker mode on stderr
ConfigureClustering ==
    /\ pc = "config"
    /\ clustering_params' = ClusteringParams(num_speakers)
    /\ stderr' = Append(stderr,
          IF num_speakers.some
          THEN <<"Using fixed number of speakers: ", num_speakers.val>>
          ELSE <<"Using automatic speaker counting with conservative parameters">>)
    /\ pc' = "instantiate"
    /\ UNCHANGED <<envVars, argVars, pipeVars, loopVars, stdout, exitStatus,
                   envRead, device, result, exc>>

\* pipeline.instantiate(clustering_params); not in a try block
Instantiate ==
    /\ pc = "instantiate"
    /\ calls' = Append(calls, "instantiate")
    /\ instantiated' = clustering_params
    /\ \/ \E e \in InstantiateErrors : Raise(e)
       \/ pc' = "invoke" /\ UNCHANGED exc
    /\ UNCHANGED <<envVars, argVars, authToken, pipelineDevice, invokedPath,
                   diarization, loopVars, outVars,
                   envRead, device, clustering_params, result>>

\* diarization = pipeline(audio_path, hook=hook); on failure: message, re-raise
Invoke ==
    /\ pc = "invoke"
    /\ calls' = Append(calls, "invoke")
    /\ invokedPath' = audio_path
    /\ \/ \E e \in InvokeErrors :
            /\ stderr' = Append(stderr, <<"Diarization failed: ", e.msg>>)
            /\ Raise(e)
            /\ UNCHANGED diarization
       \/ \E d \in Diarizations :
            /\ diarization' = d
            /\ pc' = "extract_init"
            /\ UNCHANGED <<stderr, exc>>
    /\ UNCHANGED <<envVars, argVars, authToken, pipelineDevice, instantiated,
                   loopVars, stdout, exitStatus,
                   envRead, device, clustering_params, result>>

\* segments = []; speakers = set()
BeginExtract ==
    /\ pc = "extract_init"
    /\ segments' = <<>> /\ speakers' = {} /\ idx' = 1
    /\ calls' = Append(calls, "itertracks")
    /\ pc' = "extract"
    /\ UNCHANGED <<envVars, argVars, authToken, pipelineDevice, instantiated,
                   invokedPath, diarization, outVars,
                   envRead, device, clustering_params, result, exc>>

\* one iteration of: for turn, _, speaker in diarization.itertracks(...)
ExtractTrack ==
    /\ pc = "extract" /\ idx <= Len(diarization)
    /\ segments' = Append(segments, SegmentOf(diarization[idx]))
    /\ speakers' = speakers \cup {diarization[idx].speaker}
    /\ idx' = idx + 1
    /\ UNCHANGED <<envVars, argVars, pipeVars, outVars,
                   pc, envRead, device, clustering_params, result, exc>>

\* print("Detected n speakers") to stderr; return segments
ReportAndReturn ==
    /\ pc = "extract" /\ idx > Len(diarization)
    /\ stderr' = Append(stderr, <<"Detected speakers: ", Cardinality(speakers)>>)
    /\ result' = segments
    /\ pc' = "returned"
    /\ UNCHANGED <<envVars, argVars, pipeVars, loopVars, stdout, exitStatus,
                   envRead, device, clustering_params, exc>>

\* ----------------------------------------------- the entry point, again

\* print(json.dumps({"segments": result})); the script ends, status 0
MainEmitSegments ==
    /\ mode = "cli" /\ pc = "returned"
    /\ stdout' = Append(stdout, JsonDumps("segments", result))
    /\ exitStatus' = 0
    /\ pc' = "exited"
    /\ UNCHANGED <<envVars, argVars, pipeVars, loopVars, stderr,
                   envRead, device, clustering_params, result, exc>>

\* variant: the handler prints the error and does not call sys.exit(1)
MainExcept_NoExit ==
    /\ mode = "cli" /\ pc = "raised"
    /\ stdout' = Append(stdout, JsonDumps("error", exc.msg))
    /\ exitStatus' = 0
    /\ pc' = "exited"
    /\ UNCHANGED <<envVars, argVars, pipeVars, loopVars, stderr,
                   envRead, device, clustering_params, result, exc>>

\* except Exception as e: print(json.dumps({"error": str(e)})); sys.exit(1)
MainExcept ==
    /\ mode = "cli" /\ pc = "raised"
    /\ stdout' = Append(stdout, JsonDumps("error", exc.msg))
    /\ exitStatus' = 1
    /\ pc' = "exited"
    /\ UNCHANGED <<envVars, argVars, pipeVars, loopVars, stderr,
                   envRead, device, clustering_params, result, exc>>

Next ==
    \/ MainCheckArgs
    \/ MainParseArgs
    \/ ImportCall
    \/ ResolveToken
    \/ CheckFile
    \/ SelectDevice
    \/ LoadPipeline
    \/ ConfigureClustering
    \/ Instantiate
    \/ Invoke
    \/ BeginExtract
    \/ ExtractTrack
    \/ ReportAndReturn
    \/ MainEmitSegments
    \/ MainExcept

Spec == Init /\ [][Next]_vars

\* ------------------------------------------------------------ properties

Range(f) == {f[k] : k \in DOMAIN f}
\* a line starting with `text` has been written to stderr
StderrHas(text) == \E k \in 1..Len(stderr) : stderr[k][1] = text
\* a JSON document with this top-level key has been written to stdout
StdoutHasKey(key) == \E k \in 1..Len(stdout) : stdout[k].key = key
\* diarize_audio has been called
Called == pc \notin {"start", "parse"} /\ audio_path # None
\* diarize_audio is past its token check, past both of its input checks
PastTokenCheck == Called /\ pc # "token"
PastFileCheck == PastTokenCheck /\ pc # "exists"
\* the run has ended (for an importing caller: diarize_audio has ended)
Ended == pc = "exited" \/ (mode = "import" /\ pc \in {"returned", "raised"})
TokenMissing == [type |-> "ValueError",
                 msg |-> <<"HuggingFace token required for pyannote.audio">>]
PipelineOrder == <<"from_pretrained", "to", "instantiate", "invoke", "itertracks">>

\* C1: every command-line run that ends in failure for one of the listed
\* reasons (missing token, missing file, loading failure, diarization
\* failure, invalid num_speakers argument) has written to stdout a JSON
\* object whose "error" key holds the error message.
C1_FailureWritesErrorJson ==
    (mode = "cli" /\ pc = "exited" /\ exitStatus # 0 /\ Len(argv) >= 2)
        => /\ Len(stdout) = 1
           /\ stdout[1].key = "error"
           /\ stdout[1].value = exc.msg

\* C2: a command-line run that calls diarize_audio writes exactly one JSON
\* document to stdout, {"segments": result} when diarize_audio returned and
\* {"error": message} when it raised; stdout never holds more than one
\* document, and every diagnostic message is on stderr.
C2_ExactlyOneJsonDocument ==
    /\ Len(stdout) <= 1
    /\ (mode = "cli" /\ Called /\ pc = "exited")
          => /\ Len(stdout) = 1
             /\ exc = NoExc => (stdout[1].key = "segments" /\ stdout[1].value = result)
             /\ exc # NoExc => (stdout[1].key = "error" /\ stdout[1].value = exc.msg)
    /\ (mode = "cli" /\ pc # "exited") => stdout = <<>>
    /\ mode = "import" => stdout = <<>>
    /\ device # None => StderrHas("Using device: ")
    /\ (clustering_params # {} /\ num_speakers.some)
          => StderrHas("Using fixed number of speakers: ")
    /\ (clustering_params # {} /\ ~num_speakers.some)
          => StderrHas("Using automatic speaker counting with conservative parameters")
    /\ (exc \in LoadErrors \cup DeviceErrors) => StderrHas("Error loading pipeline: ")
    /\ exc \in InvokeErrors => StderrHas("Diarization failed: ")
    /\ (pc = "returned" \/ StdoutHasKey("segments")) => StderrHas("Detected speakers: ")

C2_Witness ==
    /\ mode = "cli" /\ pc = "exited" /\ Len(stdout) = 1
    /\ stdout[1].key = "segments" /\ Len(result) = 2 /\ Len(stderr) = 3

C2_WitnessError ==
    /\ mode = "cli" /\ pc = "exited" /\ exc \in InvokeErrors
    /\ Len(stdout) = 1 /\ stdout[1].key = "error"

\* a time of t ticks (t/8 s) and h hundredths differ by at most half a hundredth
Near(t, h) == (100 * t - 8 * h) \in -4..4

\* C3: diarize_audio returns one segment per track of the pipeline's result,
\* in the order of the tracks, each with its track's speaker label unchanged
\* and its track's start and end times (to the two decimals kept); the
\* returned list is as long as the track sequence.
C3_OneSegmentPerTrack ==
    /\ pc = "extract"
          => /\ Len(segments) = idx - 1
             /\ \A k \in 1..Len(segments) :
                   segments[k].speaker = diarization[k].speaker
    /\ (pc = "returned" \/ StdoutHasKey("segments"))
          => /\ Len(result) = Len(diarization)
             /\ \A k \in 1..Len(result) :
                   /\ result[k].speaker = diarization[k].speaker
                   /\ Near(diarization[k].start, result[k].start)
                   /\ Near(diarization[k].end, result[k].end)

C3_Witness ==
    /\ pc = "returned" /\ Len(result) = 2
    /\ diarization[1].speaker # diarization[2].speaker
    /\ diarization[1].start = 0 /\ result[1].start = 0
    /\ diarization[1].end = 1 /\ result[1].end = 12

C3_WitnessEmpty == pc = "returned" /\ diarization = <<>> /\ result = <<>>

NoModelWork ==
    /\ calls = <<>> /\ device = None /\ authToken = None /\ pipelineDevice = None
    /\ clustering_params = {} /\ instantiated = {} /\ invokedPath = None

\* C4: with no token available diarize_audio raises ValueError; otherwise,
\* with an audio path that does not exist, it raises FileNotFoundError; in
\* both cases the pipeline is never loaded, configured or invoked, and the
\* token check wins when both fail.
C4_ValidationBeforeModelWork ==
    /\ (PastTokenCheck /\ tokenArg \in {None, ""} /\ envToken \in {None, ""})
          => /\ pc \in {"raised", "exited"}
             /\ exc = TokenMissing
             /\ NoModelWork
    /\ (PastFileCheck /\ ~(tokenArg \in {None, ""} /\ envToken \in {None, ""})
          /\ audio_path \notin fs)
          => /\ pc \in {"raised", "exited"}
             /\ exc.type = "FileNotFoundError"
             /\ NoModelWork
    /\ (Called /\ pc \in {"token", "exists"}) => NoModelWork

C4_WitnessToken ==
    /\ pc = "raised" /\ exc = TokenMissing /\ audio_path \notin fs

C4_WitnessFile ==
    /\ pc = "raised" /\ exc.type = "FileNotFoundError" /\ hf_token = "hf_arg"

\* C5: the parameters given to pipeline.instantiate depend only on whether
\* num_speakers is given: threshold 0.75, min_cluster_size 15 and
\* num_clusters = num_speakers when it is (0 included); threshold 0.85,
\* min_cluster_size 25 and no num_clusters key when it is None.
C5_ClusteringParameters ==
    "instantiate" \in Range(calls)
        => IF num_speakers.some
           THEN /\ <<"threshold", 75>> \in instantiated
                /\ <<"min_cluster_size", 15>> \in instantiated
                /\ <<"num_clusters", num_speakers.val>> \in instantiated
                /\ Cardinality(instantiated) = 3
           ELSE /\ <<"threshold", 85>> \in instantiated
                /\ <<"min_cluster_size", 25>> \in instantiated
                /\ \A kv \in instantiated : kv[1] # "num_clusters"
                /\ Cardinality(instantiated) = 2

C5_WitnessZero ==
    /\ "instantiate" \in Range(calls)
    /\ num_speakers = SomeInt(0) /\ <<"num_clusters", 0>> \in instantiated

C5_WitnessNone ==
    /\ "instantiate" \in Range(calls)
    /\ ~num_speakers.some /\ <<"threshold", 85>> \in instantiated

\* C6: a non-empty hf_token argument is the authentication token and the
\* environment variable is not read; an absent or empty argument makes the
\* environment variable the token; with both absent or empty ValueError is
\* raised; the command-line entry point passes no token.
C6_TokenResolution ==
    /\ (PastTokenCheck /\ tokenArg \notin {None, ""})
          => ~envRead /\ hf_token = tokenArg
    /\ (PastTokenCheck /\ tokenArg \in {None, ""})
          => /\ envRead
             /\ envToken \notin {None, ""} => hf_token = envToken
             /\ envToken \in {None, ""} => (exc = TokenMissing /\ calls = <<>>)
    /\ "from_pretrained" \in Range(calls)
          => authToken = hf_token /\ authToken \notin {None, ""}
    /\ (mode = "cli" /\ Called) => tokenArg = None
    /\ (mode = "cli" /\ "from_pretrained" \in Range(calls)) => authToken = envToken

C6_WitnessArgument ==
    /\ "from_pretrained" \in Range(calls)
    /\ authToken = "hf_arg" /\ envToken = "hf_tok" /\ ~envRead

C6_WitnessEmptyArgument ==
    /\ "from_pretrained" \in Range(calls)
    /\ tokenArg = "" /\ authToken = "hf_tok" /\ envRead

C6_WitnessCli ==
    /\ mode = "cli" /\ "from_pretrained" \in Range(calls) /\ authToken = "hf_tok"

Usage == <<"Usage: python diarization.py <audio_file> [num_speakers]">>

\* C7: run with no audio-file argument, the script prints the usage line to
\* stderr, writes nothing to stdout, exits with status 1 and never calls
\* diarize_audio.
C7_UsageError ==
    (mode = "cli" /\ Len(argv) < 2)
        => /\ pc \in {"start", "exited"}
           /\ ~Called /\ calls = <<>> /\ ~envRead
           /\ stdout = <<>>
           /\ pc = "exited" => (stderr = <<Usage>> /\ exitStatus = 1)

C7_Witness ==
    mode = "cli" /\ Len(argv) < 2 /\ pc = "exited" /\ stderr = <<Usage>>

IsPrefix(s, t) == Len(s) <= Len(t) /\ s = SubSeq(t, 1, Len(s))

\* C8: the pipeline steps happen in the order load, instantiate, invoke,
\* extract, each at most once; after a failure while loading, instantiate
\* and invoke never run; after a failure while invoking, no segments are
\* extracted or returned; in both cases the exception raised by the library
\* is the one that reaches the caller.
C8_PipelineOrder ==
    /\ IsPrefix(calls, PipelineOrder)
    /\ "instantiate" \in Range(calls) => instantiated = clustering_params
    /\ "invoke" \in Range(calls) => invokedPath = audio_path
    /\ StderrHas("Error loading pipeline: ")
          => /\ "instantiate" \notin Range(calls) /\ "invoke" \notin Range(calls)
             /\ pc \in {"raised", "exited"}
             /\ exc \in LoadErrors \cup DeviceErrors
             /\ stderr[Len(stderr)] = <<"Error loading pipeline: ", exc.msg>>
             /\ segments = <<>> /\ result = <<>> /\ ~StdoutHasKey("segments")
    /\ StderrHas("Diarization failed: ")
          => /\ "itertracks" \notin Range(calls)
             /\ pc \in {"raised", "exited"}
             /\ exc \in InvokeErrors
             /\ segments = <<>> /\ result = <<>> /\ ~StdoutHasKey("segments")

C8_WitnessLoad ==
    /\ StderrHas("Error loading pipeline: ") /\ pc = "raised"
    /\ calls = <<"from_pretrained">>

C8_WitnessInvoke ==
    /\ StderrHas("Diarization failed: ") /\ pc = "raised"
    /\ calls = <<"from_pretrained", "to", "instantiate", "invoke">>

C8_WitnessAll == calls = PipelineOrder /\ pc = "returned" /\ Len(result) = 2

\* C9: the exit status is 0 exactly when a {"segments": ...} object was
\* written to stdout; a usage error, an unparsable num_speakers and any
\* exception from diarize_audio end the run with a non-zero status and no
\* "segments" object on stdout.
C9_ExitStatus ==
    /\ pc = "exited" <=> exitStatus # -1
    /\ pc = "exited" => (exitStatus = 0 <=> StdoutHasKey("segments"))
    /\ pc # "exited" => ~StdoutHasKey("segments")
    /\ (pc = "exited" /\ (Len(argv) < 2 \/ ~Called \/ exc # NoExc))
          => (exitStatus > 0 /\ ~StdoutHasKey("segments"))

C9_WitnessZero == pc = "exited" /\ exitStatus = 0 /\ StdoutHasKey("segments")

C9_WitnessUnparsable ==
    /\ pc = "exited" /\ exitStatus = 1 /\ Len(argv) = 3 /\ argv[3] = "2x"
    /\ stdout = <<>>

C9_WitnessException ==
    /\ pc = "exited" /\ exitStatus = 1 /\ exc \in InstantiateErrors
    /\ StdoutHasKey("error")

\* C10: the device is "cuda" exactly when CUDA is reported available and
\* "cpu" otherwise; it is selected only after both input checks pass and
\* before the pipeline is loaded, and the loaded pipeline is moved to it.
C10_DeviceSelection ==
    /\ device # None
          => /\ device = "cuda" <=> cudaAvailable
             /\ device = "cpu" <=> ~cudaAvailable
             /\ PastFileCheck
             /\ hf_token \notin {None, ""} /\ audio_path \in fs
    /\ "from_pretrained" \in Range(calls) => device # None
    /\ "to" \in Range(calls) => pipelineDevice = device
    /\ (PastFileCheck /\ pc \notin {"device", "raised", "exited"}) => device # None
    /\ pc = "device" => (device = None /\ calls = <<>>)

C10_WitnessCuda == "to" \in Range(calls) /\ pipelineDevice = "cuda" /\ cudaAvailable

C10_WitnessCpu == "to" \in Range(calls) /\ pipelineDevice = "cpu" /\ ~cudaAvailable


====
